---------------------------- MODULE Spec2Model ----------------------------
(***************************************************************************)
(* Model of src/src/utils/llmHelper.js: categorizeMessage and its helpers  *)
(* parseJsonResponse, normalizeCategorizationResult, getMockCategorization.*)
(*                                                                         *)
(* JavaScript strings are TLA+ strings; Len, SubSeq and \o act on them     *)
(* character by character.  JavaScript values that JSON.parse can produce  *)
(* are tagged records (see the J... constructors below).                   *)
(*                                                                         *)
(* Text domain of the model: printable ASCII without backslash, '[' and    *)
(* ']', and without exponent notation in numbers; whitespace is space,     *)
(* newline, tab and carriage return.  Every text the specifications draw   *)
(* lies in this domain, on which the operators below compute what the      *)
(* JavaScript built-ins compute.                                           *)
(***************************************************************************)
EXTENDS Integers, Sequences, FiniteSets, TLC

VARIABLES
    pc,          \* categorizeMessage: "idle" | "awaiting" | "done"
    message,     \* the message argument of the call in progress
    remote,      \* how the awaited groq request completed
    requests,    \* number of groq.chat.completions.create calls issued
    mockCalls,   \* number of getMockCategorization calls made
    outcome,     \* "pending" | "returned" | "threw"
    path,        \* "none" | "normalize" | "mock": which return statement ran
    result,      \* the value categorizeMessage / getMockCategorization returned
    parsed,      \* normalizeCategorizationResult: its argument
    once,        \* normalizeCategorizationResult(parsed)
    twice,       \* normalizeCategorizationResult applied to `once`
    npc,         \* "start" | "once" | "twice"
    jsonText,    \* parseJsonResponse: the JSON text J
    unfenced,    \* parseJsonResponse(J), or NotParsed
    fenced       \* parseJsonResponse(J wrapped in a ```json fence), or NotParsed

vars == << pc, message, remote, requests, mockCalls, outcome, path, result,
           parsed, once, twice, npc, jsonText, unfenced, fenced >>

-----------------------------------------------------------------------------
(* Bounds of the model *)

\* longest message, in vocabulary words, drawn for getMockCategorization
MaxWords == 3
\* longest message, in vocabulary words, drawn for categorizeMessage
MaxCallWords == 1
\* largest integer priority_score drawn (the smallest is -1)
MaxPriority == 6
\* longest JSON text J enumerated over FenceAlphabet
MaxLen == 5

-----------------------------------------------------------------------------
(* JavaScript strings *)

\* s.substring(i-1, j), with indices clamped as JavaScript clamps them
Slice(s, i, j) ==
    LET a == IF i < 1 THEN 1 ELSE i
        b == IF j > Len(s) THEN Len(s) ELSE j
    IN  IF a > b THEN "" ELSE SubSeq(s, a, b)

\* the character at index i, "" outside the string
Char(s, i) == Slice(s, i, i)

\* the characters String.prototype.trim removes and the regex class \s matches
IsSpace(c) == c \in {" ", "\n", "\t", "\r"}

IsDigit(c) == c \in {"0", "1", "2", "3", "4", "5", "6", "7", "8", "9"}

DigitVal(c) ==
    CASE c = "0" -> 0 [] c = "1" -> 1 [] c = "2" -> 2 [] c = "3" -> 3
      [] c = "4" -> 4 [] c = "5" -> 5 [] c = "6" -> 6 [] c = "7" -> 7
      [] c = "8" -> 8 [] c = "9" -> 9

\* F(v), with v computed once
Let(v, F(_)) == CHOOSE y \in {F(x) : x \in {v}} : TRUE

Least(S) == CHOOSE k \in S : \A j \in S : k <= j
Greatest(S) == CHOOSE k \in S : \A j \in S : k >= j

\* first index >= i of s that holds no whitespace (Len(s)+1 when none)
SkipSpace(s, i) ==
    IF i > Len(s) THEN i
    ELSE Least({k \in i..(Len(s) + 1) : ~IsSpace(Char(s, k))})

\* last index <= i of s that holds no whitespace (0 when none)
SkipSpaceBack(s, i) ==
    IF i < 1 THEN i
    ELSE Greatest({k \in 0..i : ~IsSpace(Char(s, k))})

\* String.prototype.trim
Trim(s) == Slice(s, SkipSpace(s, 1), SkipSpaceBack(s, Len(s)))

\* String.prototype.includes
Includes(s, sub) ==
    \E i \in 1..(Len(s) - Len(sub) + 1) : SubSeq(s, i, i + Len(sub) - 1) = sub

LowerChar(c) ==
    CASE c = "A" -> "a" [] c = "B" -> "b" [] c = "C" -> "c" [] c = "D" -> "d"
      [] c = "E" -> "e" [] c = "F" -> "f" [] c = "G" -> "g" [] c = "H" -> "h"
      [] c = "I" -> "i" [] c = "J" -> "j" [] c = "K" -> "k" [] c = "L" -> "l"
      [] c = "M" -> "m" [] c = "N" -> "n" [] c = "O" -> "o" [] c = "P" -> "p"
      [] c = "Q" -> "q" [] c = "R" -> "r" [] c = "S" -> "s" [] c = "T" -> "t"
      [] c = "U" -> "u" [] c = "V" -> "v" [] c = "W" -> "w" [] c = "X" -> "x"
      [] c = "Y" -> "y" [] c = "Z" -> "z" [] OTHER -> c

\* String.prototype.toLowerCase
RECURSIVE ToLowerCase(_)
ToLowerCase(s) ==
    IF Len(s) <= 1 THEN LowerChar(s)
    ELSE ToLowerCase(Slice(s, 1, Len(s) \div 2))
         \o ToLowerCase(Slice(s, Len(s) \div 2 + 1, Len(s)))

\* (message.match(/!/g) || []).length
CountBang(s) == Cardinality({i \in 1..Len(s) : Char(s, i) = "!"})

-----------------------------------------------------------------------------
(* JavaScript values *)

JUndefined == [t |-> "undefined"]
JNull == [t |-> "null"]
JBool(b) == [t |-> "boolean", b |-> b]
\* the number num/den; den is the least power of ten that makes num an integer
JNum(num, den) == [t |-> "number", num |-> num, den |-> den]
JInt(n) == JNum(n, 1)
JNaN == [t |-> "NaN"]
JStr(s) == [t |-> "string", s |-> s]
\* an object, by the four properties normalizeCategorizationResult reads
JObj(c, s, p, r) ==
    [t |-> "object", category |-> c, sentiment |-> s, priority_score |-> p,
     reasoning |-> r]
EmptyObject == JObj(JUndefined, JUndefined, JUndefined, JUndefined)

\* num/den with the factors of ten common to both removed
RECURSIVE Reduce(_, _)
Reduce(num, den) ==
    IF den > 1 /\ num % 10 = 0 THEN Reduce(num \div 10, den \div 10)
    ELSE JNum(num, den)

-----------------------------------------------------------------------------
(* JSON.parse *)

RECURSIVE Pow10(_)
Pow10(k) == IF k = 0 THEN 1 ELSE 10 * Pow10(k - 1)

\* first index >= i of s that holds no decimal digit
SkipDigits(s, i) ==
    IF i > Len(s) THEN i
    ELSE Least({k \in i..(Len(s) + 1) : ~IsDigit(Char(s, k))})

\* the value of the decimal digits s[i..j] (0 when the range is empty)
RECURSIVE DigitsVal(_, _, _)
DigitsVal(s, i, j) ==
    IF j < i THEN 0 ELSE 10 * DigitsVal(s, i, j - 1) + DigitVal(Char(s, j))

ParseFail == [ok |-> FALSE, v |-> JUndefined, pos |-> 0]
ParseOk(v, pos) == [ok |-> TRUE, v |-> v, pos |-> pos]

\* a JSON number at index i: -? (0 | [1-9][0-9]*) (. [0-9]+)?
ParseNumber(s, i) ==
    LET a == IF Char(s, i) = "-" THEN i + 1 ELSE i
        b == SkipDigits(s, a)
        hasFrac == Char(s, b) = "."
        c == IF hasFrac THEN SkipDigits(s, b + 1) ELSE b
        den == IF hasFrac THEN Pow10(c - b - 1) ELSE 1
        mag == DigitsVal(s, a, b - 1) * den + DigitsVal(s, b + 1, c - 1)
    IN  IF b = a \/ (Char(s, a) = "0" /\ b > a + 1) \/ (hasFrac /\ c = b + 1)
        THEN ParseFail
        ELSE ParseOk(Reduce(IF a > i THEN 0 - mag ELSE mag, den), c)

\* index of the quote closing a JSON string whose text starts at i; 0 when the
\* text ends first or holds a raw control character
ClosingQuote(s, i) ==
    LET stops == {k \in i..Len(s) : Char(s, k) \in {"\"", "\n", "\t", "\r"}}
    IN  IF stops = {} THEN 0
        ELSE IF Char(s, Least(stops)) = "\"" THEN Least(stops)
        ELSE 0

\* a JSON string at index i
ParseString(s, i) ==
    LET j == ClosingQuote(s, i + 1)
    IN  IF Char(s, i) # "\"" \/ j = 0 THEN ParseFail
        ELSE ParseOk(JStr(Slice(s, i + 1, j - 1)), j + 1)

\* obj[key] = v, for the properties the model keeps
SetField(obj, key, v) ==
    CASE key = "category" -> [obj EXCEPT !.category = v]
      [] key = "sentiment" -> [obj EXCEPT !.sentiment = v]
      [] key = "priority_score" -> [obj EXCEPT !.priority_score = v]
      [] key = "reasoning" -> [obj EXCEPT !.reasoning = v]
      [] OTHER -> obj

RECURSIVE ParseValue(_, _)
RECURSIVE ParseMembers(_, _, _)

\* a JSON object at index i
ParseObject(s, i) ==
    LET k == SkipSpace(s, i + 1)
    IN  IF Char(s, k) = "}" THEN ParseOk(EmptyObject, k + 1)
        ELSE ParseMembers(s, k, EmptyObject)

\* the members of a JSON object from the key at index k on; a later duplicate
\* key overwrites an earlier one
ParseMembers(s, k, obj) ==
    LET key == ParseString(s, k)
        c == SkipSpace(s, key.pos)
        val == ParseValue(s, SkipSpace(s, c + 1))
        e == SkipSpace(s, val.pos)
        next == SetField(obj, key.v.s, val.v)
    IN  IF ~key.ok \/ Char(s, c) # ":" \/ ~val.ok THEN ParseFail
        ELSE IF Char(s, e) = "," THEN ParseMembers(s, SkipSpace(s, e + 1), next)
        ELSE IF Char(s, e) = "}" THEN ParseOk(next, e + 1)
        ELSE ParseFail

\* a JSON value at index i
ParseValue(s, i) ==
    LET c == Char(s, i)
    IN  IF c = "{" THEN ParseObject(s, i)
        ELSE IF c = "\"" THEN ParseString(s, i)
        ELSE IF c = "-" \/ IsDigit(c) THEN ParseNumber(s, i)
        ELSE IF Slice(s, i, i + 3) = "true" THEN ParseOk(JBool(TRUE), i + 4)
        ELSE IF Slice(s, i, i + 4) = "false" THEN ParseOk(JBool(FALSE), i + 5)
        ELSE IF Slice(s, i, i + 3) = "null" THEN ParseOk(JNull, i + 4)
        ELSE ParseFail

\* JSON.parse(s): the value, or threw (a SyntaxError)
JSONParse(s) ==
    LET r == ParseValue(s, SkipSpace(s, 1))
    IN  IF r.ok /\ SkipSpace(s, r.pos) = Len(s) + 1
        THEN [threw |-> FALSE, v |-> r.v]
        ELSE [threw |-> TRUE, v |-> JUndefined]

-----------------------------------------------------------------------------
(* parseJsonResponse, llmHelper.js lines 59-71 *)

\* The grave accent (U+0060).  A TLA+ string cannot hold that character, so
\* the model writes it "~"; the tilde itself is not part of the text domain.
BackTick == "~"
Fence == BackTick \o BackTick \o BackTick

\* least index >= i at which s holds three grave accents, 0 when there is none
FenceAt(s, i) ==
    LET at == {k \in i..(Len(s) - 2) : Slice(s, k, k + 2) = Fence}
    IN  IF at = {} THEN 0 ELSE Least(at)

\* content.match(/```(?:json)?\s*([\s\S]*?)```/): whether it matched, and
\* capture group 1.  The leftmost opening fence is tried first; the optional
\* tag and \s* are greedy and consume no grave accent, and the lazy group
\* ends at the first fence at or after the place where \s* stopped.
CodeBlockMatch(content) ==
    LET open == FenceAt(content, 1)
        tag == IF Slice(content, open + 3, open + 6) = "json"
               THEN open + 7 ELSE open + 3
        from == SkipSpace(content, tag)
        close == FenceAt(content, from)
    IN  IF open = 0 \/ close = 0 THEN [matched |-> FALSE, group |-> ""]
        ELSE [matched |-> TRUE, group |-> Slice(content, from, close - 1)]

\* lines 60-64: the text handed to JSON.parse
JsonStr(content) ==
    Let(CodeBlockMatch(content),
        LAMBDA codeBlockMatch :
            IF codeBlockMatch.matched THEN Trim(codeBlockMatch.group)
            ELSE content)

\* lines 65-70
ParseJsonResponse(content) ==
    Let(JsonStr(content),
        LAMBDA jsonStr :
            Let(JSONParse(jsonStr),
                LAMBDA r : IF r.threw THEN EmptyObject ELSE r.v))

-----------------------------------------------------------------------------
(* normalizeCategorizationResult, llmHelper.js lines 76-94 *)

\* Number(s) for a string: the trimmed text read as a signed decimal literal,
\* 0 for the empty text, NaN for anything else
StringToNumber(s) ==
    LET t == Trim(s)
        a == IF Char(t, 1) \in {"+", "-"} THEN 2 ELSE 1
        b == SkipDigits(t, a)
        hasDot == Char(t, b) = "."
        c == IF hasDot THEN SkipDigits(t, b + 1) ELSE b
        den == IF hasDot THEN Pow10(c - b - 1) ELSE 1
        mag == DigitsVal(t, a, b - 1) * den + DigitsVal(t, b + 1, c - 1)
    IN  IF t = "" THEN JInt(0)
        ELSE IF c # Len(t) + 1 \/ (b = a /\ c <= b + 1) THEN JNaN
        ELSE Reduce(IF Char(t, 1) = "-" THEN 0 - mag ELSE mag, den)

\* Number(v)
ToNumber(v) ==
    CASE v.t = "undefined" -> JNaN
      [] v.t = "null" -> JInt(0)
      [] v.t = "boolean" -> JInt(IF v.b THEN 1 ELSE 0)
      [] v.t = "number" -> v
      [] v.t = "string" -> StringToNumber(v.s)
      [] v.t = "object" -> JNaN

\* Number.isInteger(n)
IsInteger(n) == n.t = "number" /\ n.den = 1

\* String(n) for a non-negative integer n
RECURSIVE IntToString(_)
IntToString(n) ==
    LET d == CASE n % 10 = 0 -> "0" [] n % 10 = 1 -> "1" [] n % 10 = 2 -> "2"
               [] n % 10 = 3 -> "3" [] n % 10 = 4 -> "4" [] n % 10 = 5 -> "5"
               [] n % 10 = 6 -> "6" [] n % 10 = 7 -> "7" [] n % 10 = 8 -> "8"
               [] n % 10 = 9 -> "9"
    IN  IF n < 10 THEN d ELSE IntToString(n \div 10) \o d

\* parsed.category and the like: a property of an object, undefined on a
\* boolean, number or string
Category(p) == IF p.t = "object" THEN p.category ELSE JUndefined
Sentiment(p) == IF p.t = "object" THEN p.sentiment ELSE JUndefined
PriorityScore(p) == IF p.t = "object" THEN p.priority_score ELSE JUndefined
Reasoning(p) == IF p.t = "object" THEN p.reasoning ELSE JUndefined

\* reading a property of null or undefined throws a TypeError (line 77)
NormalizeThrows(p) == p.t \in {"null", "undefined"}

\* lines 77-79
NormCategory(p) ==
    IF Category(p).t = "string" /\ Trim(Category(p).s) # ""
    THEN Trim(Category(p).s) ELSE "Unknown"

\* line 80
NormSentiment(p) ==
    IF Sentiment(p) = JStr("Angry") THEN "Angry" ELSE "Neutral"

\* lines 81-84 with the test for values above 5 left out
NormPriorityNoUpperBound(p) ==
    LET priority_score == ToNumber(PriorityScore(p))
    IN  IF ~IsInteger(priority_score) \/ priority_score.num < 1
        THEN 3 ELSE priority_score.num

\* lines 81-84 with the lower bound off by one
NormPriorityZeroAllowed(p) ==
    LET priority_score == ToNumber(PriorityScore(p))
    IN  IF ~IsInteger(priority_score) \/ priority_score.num < 0
           \/ priority_score.num > 5
        THEN 3 ELSE priority_score.num

\* lines 81-84
NormPriority(p) ==
    LET priority_score == ToNumber(PriorityScore(p))
    IN  IF ~IsInteger(priority_score) \/ priority_score.num < 1
           \/ priority_score.num > 5
        THEN 3 ELSE priority_score.num

\* lines 85-87 with a space left at the end of the template
NormReasoningTrailingSpace(p, category, sentiment, priority_score) ==
    IF Reasoning(p).t = "string" /\ Trim(Reasoning(p).s) # ""
    THEN Trim(Reasoning(p).s)
    ELSE "Category: " \o category \o ", Sentiment: " \o sentiment
         \o ", Priority: " \o IntToString(priority_score) \o ". "

\* lines 85-87
NormReasoning(p, category, sentiment, priority_score) ==
    IF Reasoning(p).t = "string" /\ Trim(Reasoning(p).s) # ""
    THEN Trim(Reasoning(p).s)
    ELSE "Category: " \o category \o ", Sentiment: " \o sentiment
         \o ", Priority: " \o IntToString(priority_score) \o "."

NormalizeCategorizationResult(p) ==
    LET category == NormCategory(p)
        sentiment == NormSentiment(p)
        priority_score == NormPriority(p)
    IN  [category |-> category, sentiment |-> sentiment,
         priority_score |-> priority_score,
         reasoning |-> NormReasoning(p, category, sentiment, priority_score)]

\* a returned result as the JavaScript object it is
AsValue(r) ==
    JObj(JStr(r.category), JStr(r.sentiment), JInt(r.priority_score),
         JStr(r.reasoning))

-----------------------------------------------------------------------------
(* getMockCategorization, llmHelper.js lines 100-180 *)

AngryIndicators ==
    {"angry", "furious", "outraged", "unacceptable", "worst", "terrible",
     "horrible", "!!!", "urgent", "asap", "immediately"}
BillingWords ==
    {"bill", "payment", "charge", "invoice", "subscription", "refund"}
TechnicalWords ==
    {"bug", "error", "broken", "not working", "crash", "down", "server",
     "loading", "issue"}
FeatureWords ==
    {"feature", "improve", "suggestion", "would like to see", "enhancement"}
ThankWords == {"thank", "thanks", "appreciate"}
ButWords == {"but", "however"}
QuestionWords == {"how", "what", "?", "can i", "is there"}

\* words.some(w => s.includes(w))
IncludesAny(s, words) == \E w \in words : Includes(s, w)

ReasoningBilling ==
    "Based on keywords related to payments and billing, this appears to be a billing-related inquiry."
ReasoningTechnical ==
    "This message describes technical difficulties or system errors that may require engineering review."
ReasoningFeature ==
    "The customer is requesting enhancements or new functionality."
ReasoningInquiry ==
    "This appears to be a general question about the product or service."
ReasoningPositive ==
    "The customer is expressing satisfaction or gratitude."
ReasoningAmbiguous ==
    "The message doesn't contain clear indicators for automatic categorization. Manual review recommended."

Min(a, b) == IF a < b THEN a ELSE b

\* line 105
IsAngry(msg) ==
    IncludesAny(ToLowerCase(msg), AngryIndicators) \/ CountBang(msg) >= 2

\* lines 106-107
MockSentiment(msg) == IF IsAngry(msg) THEN "Angry" ELSE "Neutral"
BasePriority(msg) == IF IsAngry(msg) THEN 4 ELSE 2

\* the conditions of the rules, on the lower-cased message: lines 119-120,
\* 130-132, 142-143, 153-154 and 164-165
IsBilling(lowerMessage) == IncludesAny(lowerMessage, BillingWords)
IsTechnical(lowerMessage) == IncludesAny(lowerMessage, TechnicalWords)
IsFeature(lowerMessage) == IncludesAny(lowerMessage, FeatureWords)
IsPositive(lowerMessage) ==
    IncludesAny(lowerMessage, ThankWords)
    /\ ~IncludesAny(lowerMessage, ButWords)
IsQuestion(lowerMessage) == IncludesAny(lowerMessage, QuestionWords)

Verdict(c, s, p, r) ==
    [category |-> c, sentiment |-> s, priority_score |-> p, reasoning |-> r]

\* lines 121-126, 133-138, 144-149, 166-171, 174-179: what each rule returns
BillingVerdict(msg) ==
    Verdict("Billing Issue", MockSentiment(msg),
            Min(5, BasePriority(msg) + 1), ReasoningBilling)
TechnicalVerdict(msg) ==
    Verdict("Technical Problem", MockSentiment(msg),
            IF IsAngry(msg) THEN 5 ELSE Min(5, BasePriority(msg) + 2),
            ReasoningTechnical)
FeatureVerdict(msg) ==
    Verdict("Feature Request", MockSentiment(msg), BasePriority(msg),
            ReasoningFeature)
InquiryVerdict(msg) ==
    Verdict("General Inquiry", MockSentiment(msg), BasePriority(msg),
            ReasoningInquiry)
AmbiguousVerdict(msg) ==
    Verdict("General Inquiry", MockSentiment(msg), BasePriority(msg),
            ReasoningAmbiguous)

\* the positive-feedback rule with the sentiment computed at line 106
PositiveFeedbackKeepsSentiment(msg) ==
    Verdict("General Inquiry", MockSentiment(msg), 1, ReasoningPositive)

\* lines 155-160
PositiveFeedback(msg) ==
    Verdict("General Inquiry", "Neutral", 1, ReasoningPositive)

\* the rule chain with the technical rule tested before the billing rule
GetMockTechnicalFirst(msg) ==
    Let(ToLowerCase(msg),
        LAMBDA lowerMessage :
            IF IsTechnical(lowerMessage) THEN TechnicalVerdict(msg)
            ELSE IF IsBilling(lowerMessage) THEN BillingVerdict(msg)
            ELSE IF IsFeature(lowerMessage) THEN FeatureVerdict(msg)
            ELSE IF IsPositive(lowerMessage) THEN PositiveFeedback(msg)
            ELSE IF IsQuestion(lowerMessage) THEN InquiryVerdict(msg)
            ELSE AmbiguousVerdict(msg))

GetMockCategorization(msg) ==
    Let(ToLowerCase(msg),
        LAMBDA lowerMessage :
            IF IsBilling(lowerMessage) THEN BillingVerdict(msg)
            ELSE IF IsTechnical(lowerMessage) THEN TechnicalVerdict(msg)
            ELSE IF IsFeature(lowerMessage) THEN FeatureVerdict(msg)
            ELSE IF IsPositive(lowerMessage) THEN PositiveFeedback(msg)
            ELSE IF IsQuestion(lowerMessage) THEN InquiryVerdict(msg)
            ELSE AmbiguousVerdict(msg))

-----------------------------------------------------------------------------
(* categorizeMessage, llmHelper.js lines 21-52 *)

\* how the awaited request completed: it rejected (any transport or API
\* error, an Error object), or it resolved with a response of some shape
Rejected(why) == [kind |-> "rejected", shape |-> why, content |-> ""]
Resolved(shape, content) ==
    [kind |-> "resolved", shape |-> shape, content |-> content]
NoRemote == [kind |-> "none", shape |-> "none", content |-> ""]

\* response shapes on which line 45 throws a TypeError: response.choices
\* undefined, choices empty, choices[0].message undefined, content null
BrokenShapes == {"no_choices", "empty_choices", "no_message", "null_content"}

NoResult == Verdict("", "", 0, "")

\* lines 45-47, the statements of the try block after the await: the value
\* returned, or threw
TryBody(r) ==
    IF r.shape \in BrokenShapes THEN [threw |-> TRUE, v |-> NoResult]
    ELSE Let(Trim(r.content),
             LAMBDA content :
                 Let(ParseJsonResponse(content),
                     LAMBDA p :
                         IF NormalizeThrows(p)
                         THEN [threw |-> TRUE, v |-> NoResult]
                         ELSE [threw |-> FALSE,
                               v |-> NormalizeCategorizationResult(p)]))

\* lines 48-51, the catch block
CatchBlock(msg) ==
    [outcome |-> "returned", path |-> "mock", mocks |-> 1,
     result |-> GetMockCategorization(msg)]

\* the try block with the catch block omitted: what is thrown inside the
\* try block leaves the function
SettleUncaught(msg, r) ==
    IF r.kind = "rejected"
    THEN [outcome |-> "threw", path |-> "none", mocks |-> 0,
          result |-> NoResult]
    ELSE Let(TryBody(r),
             LAMBDA body :
                 IF body.threw
                 THEN [outcome |-> "threw", path |-> "none", mocks |-> 0,
                       result |-> NoResult]
                 ELSE [outcome |-> "returned", path |-> "normalize",
                       mocks |-> 0, result |-> body.v])

\* lines 22-51 from the point where the awaited request completes with r
Settle(msg, r) ==
    IF r.kind = "rejected" THEN CatchBlock(msg)
    ELSE Let(TryBody(r),
             LAMBDA body :
                 IF body.threw THEN CatchBlock(msg)
                 ELSE [outcome |-> "returned", path |-> "normalize",
                       mocks |-> 0, result |-> body.v])

-----------------------------------------------------------------------------
(* Inputs *)

Vocabulary ==
    {"Bill", "crash", "feature", "Thanks", "but", "how", "URGENT", "!", "hello"}

\* the words joined by single spaces
RECURSIVE Join(_)
Join(words) ==
    IF Len(words) = 0 THEN ""
    ELSE IF Len(words) = 1 THEN words[1]
    ELSE words[1] \o " " \o Join(Tail(words))

MessagesUpTo(n) ==
    {Join(w) : w \in UNION {[1..k -> Vocabulary] : k \in 0..n}}

ExampleMessages ==
    {"My bill is wrong and the app keeps crashing!!!",
     "Thanks so much for your help!",
     "hello there",
     "I really appreciate the quick fix, thank you!!!",
     "The download page is not working and I want a refund",
     "Can I export my data?"}

MockMessages == MessagesUpTo(MaxWords) \cup ExampleMessages
CallMessages == MessagesUpTo(MaxCallWords) \cup ExampleMessages

\* J wrapped in a fenced code block tagged json
Fenced(j) == Fence \o "json\n" \o j \o "\n" \o Fence

\* the text of a JSON object with the four properties, each given as JSON text
ObjectText(c, s, p, r) ==
    "{\"category\": " \o c \o ", \"sentiment\": " \o s
    \o ", \"priority_score\": " \o p \o ", \"reasoning\": " \o r \o "}"

ObjectTexts ==
    {ObjectText(c, s, p, "\"Customer reports a problem.\"") :
        c \in {"\"Billing Issue\"", "\"Shipping\"", "null"},
        s \in {"\"Angry\"", "\"Neutral\""},
        p \in {"4", "0", "9", "2.5", "\"4\"", "\"high\"", "true"}}

ReplyTexts ==
    ObjectTexts
    \cup {Fenced(j) : j \in ObjectTexts}
    \cup {"null", "~~~json\nnull\n~~~", "42", "\"Billing Issue\"", "{}", "",
          "I cannot classify this message.",
          "Here is the result:\n~~~\n{\"category\": \"Feature Request\"}\n~~~\nAnything else?",
          "  {\"category\": \"  \", \"priority_score\": 5}\n",
          "{\"reasoning\": \"reply with ~~~ fences\"}"}

Rejections ==
    {Rejected("connection_error"), Rejected("authentication_error"),
     Rejected("rate_limit"), Rejected("server_error")}

Resolutions ==
    {Resolved(sh, "") : sh \in BrokenShapes}
    \cup {Resolved("text", c) : c \in ReplyTexts}

\* values a parsed property can hold
CategoryValues ==
    {JUndefined, JNull, JInt(4), JStr(""), JStr("  "), JStr("Billing Issue"),
     JStr(" Technical Problem\n"), JStr("Shipping"), JStr("Unknown"),
     JStr("billing issue")}
SentimentValues ==
    {JUndefined, JNull, JBool(TRUE), JStr("Angry"), JStr("angry"),
     JStr(" Angry"), JStr("Neutral"), JStr("Happy")}
PriorityValues ==
    {JUndefined, JNull, JBool(TRUE), JBool(FALSE), JNum(25, 10), JNum(-5, 10),
     EmptyObject,
     JStr("4"), JStr(" 2 "), JStr("04"), JStr("4.0"), JStr("+5"), JStr("2.5"),
     JStr("0"), JStr("6"), JStr("-1"), JStr(""), JStr("high"), JStr("4 stars")}
    \cup {JInt(n) : n \in -1..MaxPriority}
ReasoningValues ==
    {JUndefined, JStr(""), JStr(" \n"), JStr(" Mentions an invoice. "),
     JInt(7)}

ParsedInputs ==
    {JObj(c, s, p, r) : c \in CategoryValues, s \in SentimentValues,
                        p \in PriorityValues, r \in ReasoningValues}
    \cup {JNull, JInt(4), JStr("Billing Issue"), JBool(TRUE)}

FenceAlphabet == {BackTick, "\"", "1", "{", "}", " "}

\* the strings of length n over FenceAlphabet
RECURSIVE StringsOfLen(_)
StringsOfLen(n) ==
    IF n = 0 THEN {""}
    ELSE {c \o s : c \in FenceAlphabet, s \in StringsOfLen(n - 1)}

JsonTexts ==
    UNION {StringsOfLen(n) : n \in 0..MaxLen}
    \cup ObjectTexts
    \cup {"{\"reasoning\": \"~~~\"}", "{\"reasoning\": \"use ~~~json blocks\"}",
          "{\"category\": \"Billing Issue\", \"reasoning\": \"~~~1~~~\"}",
          "not json", "null", "{\"category\": \"Unknown\"}"}

NotParsed == [t |-> "pending"]

-----------------------------------------------------------------------------
(* categorizeMessage as a state machine *)

Init ==
    /\ pc = "idle"
    /\ message = ""
    /\ remote = NoRemote
    /\ requests = 0
    /\ mockCalls = 0
    /\ outcome = "pending"
    /\ path = "none"
    /\ result = NoResult
    /\ parsed = JUndefined
    /\ once = NoResult
    /\ twice = NoResult
    /\ npc = "start"
    /\ jsonText = ""
    /\ unfenced = NotParsed
    /\ fenced = NotParsed

\* lines 21-43: the call starts and issues its request, then awaits it
Call ==
    /\ pc = "idle"
    /\ \E m \in CallMessages : message' = m
    /\ requests' = requests + 1
    /\ pc' = "awaiting"
    /\ UNCHANGED << remote, mockCalls, outcome, path, result, parsed, once,
                    twice, npc, jsonText, unfenced, fenced >>

\* the awaited request completes with r and the function runs to its end
Complete(r) ==
    \E s \in {Settle(message, r)} :
        /\ remote' = r
        /\ outcome' = s.outcome
        /\ path' = s.path
        /\ result' = s.result
        /\ mockCalls' = mockCalls + s.mocks
        /\ pc' = "done"
        /\ UNCHANGED << message, requests, parsed, once, twice, npc,
                        jsonText, unfenced, fenced >>

\* a rejection is answered by issuing the request again
RequestRejectedRetry ==
    /\ pc = "awaiting"
    /\ requests < 3
    /\ \E r \in Rejections : remote' = r
    /\ requests' = requests + 1
    /\ UNCHANGED << pc, message, mockCalls, outcome, path, result, parsed,
                    once, twice, npc, jsonText, unfenced, fenced >>

\* line 23 rejects: control passes to the catch block, lines 48-51
RequestRejected ==
    /\ pc = "awaiting"
    /\ \E r \in Rejections : Complete(r)

\* line 23 resolves: lines 45-47 run, and the catch block if they throw
RequestResolved ==
    /\ pc = "awaiting"
    /\ \E r \in Resolutions : Complete(r)

Next == Call \/ RequestRejected \/ RequestResolved

Spec == Init /\ [][Next]_vars

-----------------------------------------------------------------------------
(* getMockCategorization alone *)

InitMock ==
    /\ pc = "idle"
    /\ message \in MockMessages
    /\ remote = NoRemote
    /\ requests = 0
    /\ mockCalls = 0
    /\ outcome = "pending"
    /\ path = "none"
    /\ result = NoResult
    /\ parsed = JUndefined
    /\ once = NoResult
    /\ twice = NoResult
    /\ npc = "start"
    /\ jsonText = ""
    /\ unfenced = NotParsed
    /\ fenced = NotParsed

Classify ==
    /\ pc = "idle"
    /\ result' = GetMockCategorization(message)
    /\ path' = "mock"
    /\ outcome' = "returned"
    /\ mockCalls' = mockCalls + 1
    /\ pc' = "done"
    /\ UNCHANGED << message, remote, requests, parsed, once, twice, npc,
                    jsonText, unfenced, fenced >>

NextMock == Classify

SpecMock == InitMock /\ [][NextMock]_vars

-----------------------------------------------------------------------------
(* normalizeCategorizationResult alone *)

InitNormalize ==
    /\ pc = "idle"
    /\ message = ""
    /\ remote = NoRemote
    /\ requests = 0
    /\ mockCalls = 0
    /\ outcome = "pending"
    /\ path = "none"
    /\ result = NoResult
    /\ parsed \in ParsedInputs
    /\ once = NoResult
    /\ twice = NoResult
    /\ npc = "start"
    /\ jsonText = ""
    /\ unfenced = NotParsed
    /\ fenced = NotParsed

\* normalizeCategorizationResult(parsed)
NormalizeOnce ==
    /\ npc = "start"
    /\ IF NormalizeThrows(parsed)
       THEN npc' = "threw" /\ once' = once
       ELSE npc' = "once" /\ once' = NormalizeCategorizationResult(parsed)
    /\ UNCHANGED << pc, message, remote, requests, mockCalls, outcome, path,
                    result, parsed, twice, jsonText, unfenced, fenced >>

\* normalizeCategorizationResult applied to the object it returned
NormalizeAgain ==
    /\ npc = "once"
    /\ twice' = NormalizeCategorizationResult(AsValue(once))
    /\ npc' = "twice"
    /\ UNCHANGED << pc, message, remote, requests, mockCalls, outcome, path,
                    result, parsed, once, jsonText, unfenced, fenced >>

NextNormalize == NormalizeOnce \/ NormalizeAgain

SpecNormalize == InitNormalize /\ [][NextNormalize]_vars

-----------------------------------------------------------------------------
(* parseJsonResponse alone *)

InitParse ==
    /\ pc = "idle"
    /\ message = ""
    /\ remote = NoRemote
    /\ requests = 0
    /\ mockCalls = 0
    /\ outcome = "pending"
    /\ path = "none"
    /\ result = NoResult
    /\ parsed = JUndefined
    /\ once = NoResult
    /\ twice = NoResult
    /\ npc = "start"
    /\ jsonText \in JsonTexts
    /\ unfenced = NotParsed
    /\ fenced = NotParsed

\* parseJsonResponse(J)
ParseUnfenced ==
    /\ unfenced = NotParsed
    /\ unfenced' = ParseJsonResponse(jsonText)
    /\ UNCHANGED << pc, message, remote, requests, mockCalls, outcome, path,
                    result, parsed, once, twice, npc, jsonText, fenced >>

\* parseJsonResponse of J inside a json-tagged fence
ParseFenced ==
    /\ fenced = NotParsed
    /\ fenced' = ParseJsonResponse(Fenced(jsonText))
    /\ UNCHANGED << pc, message, remote, requests, mockCalls, outcome, path,
                    result, parsed, once, twice, npc, jsonText, unfenced >>

NextParse == ParseUnfenced \/ ParseFenced

SpecParse == InitParse /\ [][NextParse]_vars

-----------------------------------------------------------------------------
(* Properties *)

CanonicalCategories ==
    {"Billing Issue", "Technical Problem", "Feature Request",
     "General Inquiry", "Unknown"}

\* C1: categorizeMessage is total.  However the request completes, rejected
\* or resolved with any response, the call ends by returning a result and
\* never by throwing to its caller.
CategorizeMessageTotal ==
    /\ outcome # "threw"
    /\ pc = "done" =>
          /\ outcome = "returned"
          /\ path \in {"normalize", "mock"}
          /\ result # NoResult

\* a call has returned although the statements after the await threw
ReturnedAfterThrowInTry ==
    /\ pc = "done"
    /\ remote.kind = "resolved"
    /\ TryBody(remote).threw
    /\ outcome = "returned"

\* C2: every result returned has sentiment Neutral or Angry, an integer
\* priority_score from 1 to 5 and a non-empty reasoning, and a result of the
\* heuristic fallback has one of the five canonical categories.
ResultWellFormed ==
    pc = "done" =>
        /\ result.sentiment \in {"Neutral", "Angry"}
        /\ result.priority_score \in 1..5
        /\ result.reasoning # ""
        /\ path = "mock" => result.category \in CanonicalCategories

\* a normalized result whose reply carried the priority_score 9
ReturnedForOutOfRangePriority ==
    /\ pc = "done"
    /\ path = "normalize"
    /\ PriorityScore(ParseJsonResponse(Trim(remote.content))) = JInt(9)
    /\ result.priority_score = 3

\* C3: the heuristic fallback is taken only when the request itself failed.
\* Whenever the request resolves, the result comes from normalization, and a
\* reply whose text is not JSON gives Unknown, Neutral, 3.
FallbackOnlyOnRequestFailure ==
    (pc = "done" /\ remote.kind = "resolved") =>
        /\ path = "normalize"
        /\ mockCalls = 0
        /\ (remote.shape = "text"
            /\ JSONParse(JsonStr(Trim(remote.content))).threw) =>
               /\ result.category = "Unknown"
               /\ result.sentiment = "Neutral"
               /\ result.priority_score = 3

\* C4: after normalization the category is one of the five canonical values.
CategoryCanonicalAfterNormalization ==
    npc \in {"once", "twice"} => once.category \in CanonicalCategories

\* C5 as stated: priority_score is 3 whenever the parsed value is not an
\* integer or lies outside [1,5], and the value unchanged only when it is an
\* integer in [1,5].
PriorityKeptOnlyIfInteger ==
    npc \in {"once", "twice"} =>
        LET v == PriorityScore(parsed)
        IN  IF v.t = "number" /\ v.den = 1 /\ v.num \in 1..5
            THEN once.priority_score = v.num
            ELSE once.priority_score = 3

\* C5 as amended: priority_score is the parsed value coerced to a number when
\* that number is an integer in [1,5], and 3 otherwise.  An integer in [1,5]
\* is kept, any other number gives 3, true gives 1, false, null, an absent
\* value and an object give 3, and a string gives the integer in [1,5] it
\* denotes as a decimal literal (so "4" gives 4) and 3 otherwise ("high", "0").
PriorityIsCoercedNumber ==
    npc \in {"once", "twice"} =>
        LET v == PriorityScore(parsed)
            n == StringToNumber(v.s)
        IN  /\ v.t = "number" =>
                  once.priority_score =
                      IF v.den = 1 /\ v.num \in 1..5 THEN v.num ELSE 3
            /\ v.t = "boolean" =>
                  once.priority_score = IF v.b THEN 1 ELSE 3
            /\ v.t \in {"undefined", "null", "object"} =>
                  once.priority_score = 3
            /\ v.t = "string" =>
                  once.priority_score =
                      IF n.t = "number" /\ n.den = 1 /\ n.num \in 1..5
                      THEN n.num ELSE 3
            /\ v = JInt(0) => once.priority_score = 3
            /\ v = JStr("high") => once.priority_score = 3

\* the numeric string "4" was normalized to the number 4
NumericStringCoerced ==
    /\ npc = "once"
    /\ PriorityScore(parsed) = JStr("4")
    /\ once.priority_score = 4

\* C6: fence transparency of parseJsonResponse.  J wrapped in a fenced code
\* block tagged json parses to the same object as J unfenced.
FenceTransparency ==
    (unfenced # NotParsed /\ fenced # NotParsed) => unfenced = fenced

\* C7: each call issues exactly one request and never retries.  The heuristic
\* runs at most once, only after the request has completed, and a rejected
\* request leads directly to the fallback result.
OneRequestNoRetry ==
    /\ pc = "idle" => requests = 0
    /\ pc # "idle" => requests = 1
    /\ mockCalls <= 1
    /\ pc # "done" => mockCalls = 0 /\ remote = NoRemote
    /\ (pc = "done" /\ remote.kind = "rejected") =>
           path = "mock" /\ mockCalls = 1 /\ outcome = "returned"
    /\ mockCalls = 1 => path = "mock"

\* a call whose request was rejected has returned the fallback result
FellBackAfterRejection ==
    /\ pc = "done"
    /\ remote.kind = "rejected"
    /\ requests = 1
    /\ mockCalls = 1

\* C8: normalization is idempotent.  Normalizing the object that
\* normalization returned gives the same four fields again.
NormalizationIdempotent ==
    npc = "twice" =>
        /\ twice.category = once.category
        /\ twice.sentiment = once.sentiment
        /\ twice.priority_score = once.priority_score
        /\ twice.reasoning = once.reasoning

\* normalized twice from an object whose category had to be trimmed, whose
\* priority was out of range and whose reasoning had to be synthesized
NormalizedTwice ==
    /\ npc = "twice"
    /\ Category(parsed) = JStr(" Technical Problem\n")
    /\ PriorityScore(parsed) = JInt(0)
    /\ Reasoning(parsed) = JUndefined
    /\ twice.reasoning = "Category: Technical Problem, Sentiment: Neutral, Priority: 3."

\* C9: the heuristic applies its rules in the order billing, technical,
\* feature request, gratitude, general question, default, and the first rule
\* that matches alone determines the result.  A message matching billing and
\* technical keywords is a Billing Issue with priority min(5, basePriority+1).
HeuristicPrecedence ==
    pc = "done" =>
        LET l == ToLowerCase(message)
            b == IsBilling(l)
            t == IsTechnical(l)
            f == IsFeature(l)
            g == IsPositive(l)
            q == IsQuestion(l)
            base == IF IsAngry(message) THEN 4 ELSE 2
        IN  /\ b => /\ result.category = "Billing Issue"
                    /\ result.priority_score = Min(5, base + 1)
                    /\ result.reasoning = ReasoningBilling
            /\ (~b /\ t) =>
                    /\ result.category = "Technical Problem"
                    /\ result.priority_score = IF IsAngry(message) THEN 5 ELSE 4
                    /\ result.reasoning = ReasoningTechnical
            /\ (~b /\ ~t /\ f) =>
                    /\ result.category = "Feature Request"
                    /\ result.priority_score = base
                    /\ result.reasoning = ReasoningFeature
            /\ (~b /\ ~t /\ ~f /\ g) =>
                    /\ result.category = "General Inquiry"
                    /\ result.reasoning = ReasoningPositive
            /\ (~b /\ ~t /\ ~f /\ ~g /\ q) =>
                    /\ result.category = "General Inquiry"
                    /\ result.priority_score = base
                    /\ result.reasoning = ReasoningInquiry
            /\ (~b /\ ~t /\ ~f /\ ~g /\ ~q) =>
                    /\ result.category = "General Inquiry"
                    /\ result.priority_score = base
                    /\ result.reasoning = ReasoningAmbiguous
            /\ message = "My bill is wrong and the app keeps crashing!!!" =>
                    /\ result.category = "Billing Issue"
                    /\ result.sentiment = "Angry"
                    /\ result.priority_score = 5

\* the heuristic has classified a message that matches a billing and a
\* technical keyword
BillingAndTechnicalClassified ==
    /\ pc = "done"
    /\ message = "My bill is wrong and the app keeps crashing!!!"
    /\ IsBilling(ToLowerCase(message))
    /\ IsTechnical(ToLowerCase(message))
    /\ result.category = "Billing Issue"

\* C10: gratitude override.  A message with no billing, technical or feature
\* keyword that contains thank or appreciate and neither but nor however is a
\* General Inquiry, Neutral, priority 1, whatever anger indicators it holds.
GratitudeOverride ==
    LET l == ToLowerCase(message)
    IN  (/\ pc = "done"
         /\ ~IncludesAny(l, BillingWords \cup TechnicalWords \cup FeatureWords)
         /\ (Includes(l, "thank") \/ Includes(l, "appreciate"))
         /\ ~Includes(l, "but")
         /\ ~Includes(l, "however")) =>
            /\ result.category = "General Inquiry"
            /\ result.sentiment = "Neutral"
            /\ result.priority_score = 1

\* the heuristic has classified a grateful message that anger detection
\* marks as angry
AngryGratitudeClassified ==
    /\ pc = "done"
    /\ IsPositive(ToLowerCase(message))
    /\ ~IncludesAny(ToLowerCase(message),
                    BillingWords \cup TechnicalWords \cup FeatureWords)
    /\ IsAngry(message)
    /\ result.sentiment = "Neutral"

=============================================================================
